---- MODULE Spec2Model ----
(***************************************************************************)
(* Model of Notebook_nuevo/var_pipeline.py: the per-country VAR pipeline    *)
(* (fit_var_for_country and the functions it calls), forecast_levels and    *)
(* quick_var_country_report.                                                *)
(*                                                                          *)
(* Tables are pandas DataFrames: a set of column names, the name of the     *)
(* index and a sequence of rows; a row maps each column (and the index) to  *)
(* its value.  A float is a tuple: <<>> is NaN, <<n>> is the number n.      *)
(* p-values are in hundredths (5 is 0.05), root moduli in tenths (10 is     *)
(* 1.0).  statsmodels is outside the repository: each of its calls is a     *)
(* step that picks one of the outcomes the call can have.                   *)
(***************************************************************************)
EXTENDS Integers, Sequences, FiniteSets, TLC

VARIABLES
    entry,          \* the function the caller invoked
    pc,             \* position of the invocation
    df,             \* the caller's table object
    country,        \* the country argument
    cfgKind,        \* "default": config argument omitted; "explicit": passed
    cfgArg,         \* the caller's explicit VARConfig object
    defaultConfig,  \* the VARConfig() object shared by all calls (line 106)
    dfc,            \* local dfc of fit_var_for_country
    df_xy,          \* local df_xy
    df_xy_t,        \* local df_xy_t
    meta,           \* transform metadata
    sel,            \* outcome of the order selection inside select_lags
    used_lags,      \* local used_lags
    fit,            \* the fitted model object
    diagnostics,    \* the diagnostics record
    pack,           \* the VARResultsPack returned
    err,            \* the exception that left the invocation, <<>> if none
    printed,        \* number of print calls of quick_var_country_report
    plots,          \* number of figures shown
    last_levels,    \* forecast_levels: argument last_levels
    steps,          \* forecast_levels: argument steps
    fcst,           \* forecast_levels: local fcst
    levels,         \* forecast_levels: local levels
    i,              \* forecast_levels: loop variable
    out,            \* forecast_levels: the table returned
    lib,            \* the answers statsmodels has given, by call
    phase,          \* "hist": an earlier invocation; "first", "second": the
                    \* two invocations that are compared
    ref             \* the table and configuration at the start of the
                    \* invocation, and the outcome of the "first" one

callVars == <<entry, df, country, cfgKind, cfgArg>>

prepVars == <<dfc, df_xy>>

transVars == <<df_xy_t, meta>>

fitVars == <<sel, used_lags, fit, diagnostics, pack>>

fcVars == <<last_levels, steps, fcst, levels, i, out>>

histVars == <<phase, ref>>

vars == <<callVars, pc, defaultConfig, prepVars, transVars, fitVars, err,
          printed, plots, fcVars, lib, histVars>>

-----------------------------------------------------------------------------
(* Floats *)

NaN == <<>>

Num(n) == <<n>>

IsNaN(v) == v = NaN

\* a - b of two floats: NaN if either is
Sub(a, b) == IF IsNaN(a) \/ IsNaN(b) THEN NaN ELSE Num(a[1] - b[1])

Add(a, b) == IF IsNaN(a) \/ IsNaN(b) THEN NaN ELSE Num(a[1] + b[1])

\* a >= b of two floats: false if either is NaN
GE(a, b) == ~IsNaN(a) /\ ~IsNaN(b) /\ a[1] >= b[1]

\* a < b of two floats: false if either is NaN
LT(a, b) == ~IsNaN(a) /\ ~IsNaN(b) /\ a[1] < b[1]

Min(a, b) == IF a <= b THEN a ELSE b

-----------------------------------------------------------------------------
(* Column names: the defaults of y_col, pi_col and year_col *)

y_col == "yield_10y"

pi_col == "inflation_yoy"

year_col == "Year"

RangeIndex == "RangeIndex"

\* pd.to_datetime(year, format="%Y"): the first of January of that year
ToDatetimeYear(y) == <<y, 1, 1>>

\* t1 <= t2 of two timestamps <<year, month, day>>
DateLE(t1, t2) ==
    \/ t1[1] < t2[1]
    \/ t1[1] = t2[1] /\ t1[2] < t2[2]
    \/ t1[1] = t2[1] /\ t1[2] = t2[2] /\ t1[3] <= t2[3]

-----------------------------------------------------------------------------
(* Bounds and input sets *)

MaxRows == 2

Countries == {"ES", "DE"}

Years == {2010, 2011}

Dates == {ToDatetimeYear(y) : y \in Years}

\* values of the two data columns of a raw input table
RawVals == {NaN, Num(1)}

SeqsUpTo(S, n) == UNION {[1..k -> S] : k \in 0..n}

\* the column sets of the input tables: with or without Country, with a
\* Year column, a Date column or neither, with or without each data column
ColSets ==
    {c \in SUBSET {"Country", year_col, "Date", y_col, pi_col} :
        ~({year_col, "Date"} \subseteq c)}

FullRows ==
    {[Country |-> c, Year |-> yr, Date |-> ToDatetimeYear(yr),
      yield_10y |-> y, inflation_yoy |-> p] :
        c \in Countries, yr \in Years, y \in RawVals, p \in RawVals}

RowsOver(cols) == {[k \in cols |-> r[k]] : r \in FullRows}

Tables ==
    UNION {{[cols |-> c, index |-> RangeIndex, rows |-> rs] :
                rs \in SeqsUpTo(RowsOver(c), MaxRows)} : c \in ColSets}

NoTable == [cols |-> {}, index |-> RangeIndex, rows |-> <<>>]

-----------------------------------------------------------------------------
(* VARConfig *)

VARConfigDefault ==
    [maxlags |-> 2, ic |-> "aic", deterministic |-> "ct",
     diff_to_stationary |-> TRUE, irf_horizon |-> 8, fcst_steps |-> 4]

\* the config object an invocation reads
Config == IF cfgKind = "default" THEN defaultConfig ELSE cfgArg

-----------------------------------------------------------------------------
(* Table operations of pandas used by the pipeline *)

\* df[df["Country"] == country]
FilterCountry(t, c) ==
    [t EXCEPT !.rows = SelectSeq(t.rows, LAMBDA r : r["Country"] = c)]

\* the rows of a table in index order; ties keep their order
RECURSIVE InsertByIndex(_, _, _)
InsertByIndex(r, s, ix) ==
    IF s = <<>> THEN <<r>>
    ELSE IF DateLE(s[Len(s)][ix], r[ix]) THEN Append(s, r)
    ELSE Append(InsertByIndex(r, SubSeq(s, 1, Len(s) - 1), ix), s[Len(s)])

RECURSIVE SortRows(_, _)
SortRows(s, ix) ==
    IF s = <<>> THEN <<>>
    ELSE InsertByIndex(s[Len(s)], SortRows(SubSeq(s, 1, Len(s) - 1), ix), ix)

\* df.set_index("Date").sort_index()
SetIndexSort(t) ==
    [cols |-> t.cols \ {"Date"}, index |-> "Date",
     rows |-> SortRows(t.rows, "Date")]

\* df[[y_col, pi_col]]: the two columns, the index kept
TwoColumns(t) ==
    LET keep == {y_col, pi_col} \cup (IF t.index = RangeIndex THEN {} ELSE {t.index})
    IN [cols |-> {y_col, pi_col}, index |-> t.index,
        rows |-> [j \in 1..Len(t.rows) |-> [k \in keep |-> t.rows[j][k]]]]

\* df.dropna(): the rows without a missing value
DropNa(t) ==
    [t EXCEPT !.rows =
        SelectSeq(t.rows, LAMBDA r : \A c \in t.cols : ~IsNaN(r[c]))]

-----------------------------------------------------------------------------
(* ensure_datetime_index *)

EnsureRaises(t) == ~(year_col \in t.cols) /\ ~("Date" \in t.cols)

ensure_datetime_index(t) ==
    LET dated ==
            IF year_col \in t.cols
            THEN [cols |-> t.cols \cup {"Date"}, index |-> t.index,
                  rows |-> [j \in 1..Len(t.rows) |->
                              [k \in t.cols \cup {"Date"} |->
                                  IF k = "Date"
                                  THEN ToDatetimeYear(t.rows[j][year_col])
                                  ELSE t.rows[j][k]]]]
            ELSE t
    IN SetIndexSort(dated)

-----------------------------------------------------------------------------
(* statsmodels: the outcomes of its calls *)

Raise == <<"raise">>

Ok(v) == <<"ok", v>>

LibError(fn) == <<"Exception", fn>>

\* 0.05, in hundredths (line 68)
Alpha == 5

\* 1.0, in tenths (line 152)
One == 10

\* p-values adfuller can report: below 0.05, 0.05 itself, and NaN
PValues == {Num(4), Num(5), NaN}

\* root moduli a fit can have: below, at and above 1.0
Moduli == {9, 10, 11}

\* the information criteria of a LagOrderResults
Criteria == {"aic", "bic", "hqic", "fpe"}

\* the values of a column, in row order
Series(t, c) == [j \in 1..Len(t.rows) |-> t.rows[j][c]]

\* series.dropna()
SeriesDropNa(s) == SelectSeq(s, LAMBDA v : ~IsNaN(v))

\* adfuller(series): it raises on an empty series, and may on any other
AdfOutcomes(s) == IF s = <<>> THEN {Raise} ELSE {Raise} \cup {Ok(p) : p \in PValues}

\* select_order(maxlags) followed by getattr(sel, ic): an order in
\* 0..maxlags, NaN or an exception; a name that is no criterion raises
\* (AttributeError, or TypeError from np.isnan)
OrderOutcomes(cfg) ==
    IF cfg.ic \in Criteria
    THEN {Raise, Ok(NaN)} \cup {Ok(Num(k)) : k \in 0..cfg.maxlags}
    ELSE {Raise}

\* the non-increasing sequences of n moduli (roots come sorted by modulus)
RootSeqs(n) ==
    {r \in [1..n -> Moduli] : \A j \in 1..(n - 1) : r[j] >= r[j + 1]}

\* VAR(df).fit(lags, trend): an exception, or a fit with neqs * lags roots
FitOutcomes(t, lags) ==
    IF lags < 0 THEN {Raise}
    ELSE {Raise} \cup
         {Ok([k_ar |-> lags, roots |-> r, nobs |-> Len(t.rows) - lags]) :
              r \in RootSeqs(2 * lags)}

\* the residual tests of lines 134-149: they return or raise
DiagOutcomes == {Raise, Ok(NaN)}

\* the answers a call can get: the one already given to the same call
\* (the library computes a function), or any outcome of the call
Answers(fn, args, known, outcomes) ==
    LET given == {e \in known : e[1] = fn /\ e[2] = args}
    IN IF given = {} THEN outcomes ELSE {e[3] : e \in given}

-----------------------------------------------------------------------------
(* adf_report, difference_if_needed *)

adf_report(name, p) == [variable |-> name, p_value |-> p]

ColumnOrder == <<y_col, pi_col>>

\* line 68 without the test of the configuration
NeedsDifferencingAlways(cfg, adf_b) ==
    \E k \in 1..Len(adf_b) : GE(adf_b[k].p_value, Num(Alpha))

\* line 68 with > instead of >=
NeedsDifferencingStrict(cfg, adf_b) ==
    /\ cfg.diff_to_stationary
    /\ \E k \in 1..Len(adf_b) : GE(adf_b[k].p_value, Num(Alpha + 1))

\* line 68: the condition under which the table is differenced
NeedsDifferencing(cfg, adf_b) ==
    /\ cfg.diff_to_stationary
    /\ \E k \in 1..Len(adf_b) : GE(adf_b[k].p_value, Num(Alpha))

\* df.diff(): each row minus the one before it; the first row is missing
Diff(t) ==
    [t EXCEPT !.rows =
        [j \in 1..Len(t.rows) |->
            [k \in DOMAIN t.rows[j] |->
                IF k \in t.cols
                THEN (IF j = 1 THEN NaN ELSE Sub(t.rows[j][k], t.rows[j - 1][k]))
                ELSE t.rows[j][k]]]]

\* line 69
DiffDropNa(t) == DropNa(Diff(t))

-----------------------------------------------------------------------------
(* select_lags *)

\* lines 81-88 without the test chosen < 1 of line 84
select_lags_unchecked(cfg, outcome) ==
    IF outcome = Raise THEN Min(cfg.maxlags, 1)
    ELSE IF IsNaN(outcome[2]) THEN Min(cfg.maxlags, 1)
    ELSE outcome[2][1]

\* lines 81-88: the order returned for an outcome of the selection
select_lags(cfg, outcome) ==
    IF outcome = Raise THEN Min(cfg.maxlags, 1)
    ELSE IF IsNaN(outcome[2]) \/ outcome[2][1] < 1 THEN Min(cfg.maxlags, 1)
    ELSE outcome[2][1]

\* lines 81, 87 without the try
SelectRaisesUncaught(outcome) == outcome = Raise

\* lines 81, 87: whether an exception of the selection leaves select_lags
SelectRaises(outcome) == FALSE

\* select_lags storing the order it chose in the config object
ConfigAfterSelectStored(cfg, lags) == [cfg EXCEPT !.maxlags = lags]

\* what select_lags leaves in the config object it was given
ConfigAfterSelect(cfg, lags) == cfg

-----------------------------------------------------------------------------
(* fit_var_for_country *)

cols_needed == {y_col, pi_col}

\* lines 112-115: the rows of the country, or all rows
CountryRows(t, c) == IF "Country" \in t.cols THEN FilterCountry(t, c) ELSE t

\* lines 112-121 working on the caller's table itself
CallerTableIndexed(t) == ensure_datetime_index(t)

\* what lines 112-121 leave in the caller's table: they work on copies
CallerTableAfter(t) == t

\* line 118 naming every needed column
MissingColumnsAll(t) == cols_needed

\* line 118: the columns the message names
MissingColumns(t) == cols_needed \ t.cols

NoErr == <<>>

ValueErrorMissing(cols) == <<"ValueError", "Missing columns", cols>>

ValueErrorNoDate == <<"ValueError", "Provide a 'Year' or 'Date' column.">>

NoMeta == [differenced |-> FALSE, adf_before |-> <<>>, adf_after |-> <<>>]

NoFit == <<>>

NoDiagnostics == <<>>

NoPack == <<>>

\* lines 151-161 with <= instead of < in line 152
DiagnosticsLE(f, lags) ==
    [ljung_box_lags |-> Min(lags, 2),
     stable_roots_all_less_than_one |-> \A j \in 1..Len(f.roots) : f.roots[j] <= One,
     roots_modulus_max |->
        IF Len(f.roots) > 0
        THEN Num(CHOOSE m \in {f.roots[j] : j \in 1..Len(f.roots)} :
                    \A j \in 1..Len(f.roots) : f.roots[j] <= m)
        ELSE NaN,
     nobs |-> f.nobs]

\* lines 151-161
Diagnostics(f, lags) ==
    [ljung_box_lags |-> Min(lags, 2),
     stable_roots_all_less_than_one |-> \A j \in 1..Len(f.roots) : f.roots[j] < One,
     roots_modulus_max |->
        IF Len(f.roots) > 0
        THEN Num(CHOOSE m \in {f.roots[j] : j \in 1..Len(f.roots)} :
                    \A j \in 1..Len(f.roots) : f.roots[j] <= m)
        ELSE NaN,
     nobs |-> f.nobs]

\* lines 163-170
VARResultsPack(f, lags, m, d) ==
    [model_fit |-> f, used_lags |-> lags, transformed |-> m.differenced,
     transform_meta |-> m, diagnostics |-> d, variables |-> ColumnOrder]

\* lines 111-118
CheckColumns ==
    /\ pc = "call"
    /\ dfc' = CountryRows(df, country)
    /\ IF cols_needed \subseteq dfc'.cols
       THEN pc' = "index" /\ err' = err
       ELSE pc' = "raised" /\ err' = ValueErrorMissing(MissingColumns(dfc'))
    /\ UNCHANGED <<callVars, defaultConfig, df_xy, transVars, fitVars,
                   printed, plots, fcVars, lib, histVars>>

\* line 120
EnsureIndex ==
    /\ pc = "index"
    /\ IF EnsureRaises(dfc)
       THEN pc' = "raised" /\ err' = ValueErrorNoDate /\ dfc' = dfc
       ELSE pc' = "clean" /\ err' = err /\ dfc' = ensure_datetime_index(dfc)
    /\ UNCHANGED <<callVars, defaultConfig, df_xy, transVars, fitVars,
                   printed, plots, fcVars, lib, histVars>>

\* line 121
Clean ==
    /\ pc = "clean"
    /\ df_xy' = DropNa(TwoColumns(dfc))
    /\ df' = CallerTableAfter(df)
    /\ pc' = "transform"
    /\ UNCHANGED <<entry, country, cfgKind, cfgArg, defaultConfig, dfc,
                   transVars, fitVars, err, printed, plots, fcVars, lib,
                   histVars>>

\* lines 66 and 71: the ADF reports of the two columns of t with the
\* library's answers, as pairs <<outcome, answers given so far>>; the call
\* on the second column is made only if the first returns
AdfReports(t, known) ==
    LET sy == SeriesDropNa(Series(t, y_col))
        sp == SeriesDropNa(Series(t, pi_col))
        first == {<<oy, known \cup {<<"adfuller", sy, oy>>}>> :
                     oy \in Answers("adfuller", sy, known, AdfOutcomes(sy))}
        second(f) == {<<op, f[2] \cup {<<"adfuller", sp, op>>}>> :
                         op \in Answers("adfuller", sp, f[2], AdfOutcomes(sp))}
    IN {<<Raise, f[2]>> : f \in {g \in first : g[1] = Raise}}
       \cup UNION {{IF s[1] = Raise
                    THEN <<Raise, s[2]>>
                    ELSE <<Ok(<<adf_report(y_col, f[1][2]),
                               adf_report(pi_col, s[1][2])>>), s[2]>> :
                        s \in second(f)} : f \in {g \in first : g[1] # Raise}}

\* difference_if_needed, lines 65-67
AdfBefore ==
    /\ pc = "transform"
    /\ \E r \in AdfReports(df_xy, lib) :
          /\ lib' = r[2]
          /\ IF r[1] = Raise
             THEN pc' = "raised" /\ err' = LibError("adfuller") /\ meta' = meta
             ELSE /\ pc' = "decide"
                  /\ err' = err
                  /\ meta' = [NoMeta EXCEPT !.adf_before = r[1][2]]
    /\ UNCHANGED <<callVars, defaultConfig, prepVars, df_xy_t, fitVars,
                   printed, plots, fcVars, histVars>>

\* difference_if_needed, lines 68-70
Difference ==
    /\ pc = "decide"
    /\ NeedsDifferencing(Config, meta.adf_before)
    /\ df_xy_t' = DiffDropNa(df_xy)
    /\ meta' = [meta EXCEPT !.differenced = TRUE]
    /\ pc' = "adf_after"
    /\ UNCHANGED <<callVars, defaultConfig, prepVars, fitVars, err, printed,
                   plots, fcVars, lib, histVars>>

\* difference_if_needed, lines 71-73
AdfAfter ==
    /\ pc = "adf_after"
    /\ \E r \in AdfReports(df_xy_t, lib) :
          /\ lib' = r[2]
          /\ IF r[1] = Raise
             THEN pc' = "raised" /\ err' = LibError("adfuller") /\ meta' = meta
             ELSE /\ pc' = "select"
                  /\ err' = err
                  /\ meta' = [meta EXCEPT !.adf_after = r[1][2]]
    /\ UNCHANGED <<callVars, defaultConfig, prepVars, df_xy_t, fitVars,
                   printed, plots, fcVars, histVars>>

\* difference_if_needed, line 74
NoDifference ==
    /\ pc = "decide"
    /\ ~NeedsDifferencing(Config, meta.adf_before)
    /\ df_xy_t' = df_xy
    /\ pc' = "select"
    /\ UNCHANGED <<callVars, defaultConfig, prepVars, meta, fitVars, err,
                   printed, plots, fcVars, lib, histVars>>

\* select_lags, lines 78-83: the selection, with its outcome
SelectOrder ==
    /\ pc = "select"
    /\ LET args == <<df_xy_t, Config.maxlags, Config.ic>>
       IN \E o \in Answers("select_order", args, lib, OrderOutcomes(Config)) :
            /\ sel' = o
            /\ lib' = lib \cup {<<"select_order", args, o>>}
    /\ pc' = "selected"
    /\ UNCHANGED <<callVars, defaultConfig, prepVars, transVars, used_lags,
                   fit, diagnostics, pack, err, printed, plots, fcVars,
                   histVars>>

\* select_lags, lines 84-88, and the assignment of line 127
SelectLags ==
    /\ pc = "selected"
    /\ IF SelectRaises(sel)
       THEN pc' = "raised" /\ err' = LibError("select_order")
            /\ UNCHANGED <<used_lags, defaultConfig, cfgArg>>
       ELSE /\ pc' = "fit"
            /\ err' = err
            /\ used_lags' = select_lags(Config, sel)
            /\ IF cfgKind = "default"
               THEN /\ defaultConfig' = ConfigAfterSelect(defaultConfig, used_lags')
                    /\ cfgArg' = cfgArg
               ELSE /\ cfgArg' = ConfigAfterSelect(cfgArg, used_lags')
                    /\ defaultConfig' = defaultConfig
    /\ UNCHANGED <<entry, df, country, cfgKind, prepVars, transVars, sel, fit,
                   diagnostics, pack, printed, plots, fcVars, lib, histVars>>

\* lines 130-131
Fit ==
    /\ pc = "fit"
    /\ LET args == <<df_xy_t, used_lags, Config.deterministic>>
       IN \E o \in Answers("fit", args, lib, FitOutcomes(df_xy_t, used_lags)) :
            /\ lib' = lib \cup {<<"fit", args, o>>}
            /\ IF o = Raise
               THEN pc' = "raised" /\ err' = LibError("fit") /\ fit' = fit
               ELSE pc' = "diagnose" /\ err' = err /\ fit' = o[2]
    /\ UNCHANGED <<callVars, defaultConfig, prepVars, transVars, sel,
                   used_lags, diagnostics, pack, printed, plots, fcVars,
                   histVars>>

\* lines 134-161
Diagnose ==
    /\ pc = "diagnose"
    /\ LET args == <<df_xy_t, used_lags, Config.deterministic>>
       IN \E o \in Answers("resid_tests", args, lib, DiagOutcomes) :
            /\ lib' = lib \cup {<<"resid_tests", args, o>>}
            /\ IF o = Raise
               THEN /\ pc' = "raised"
                    /\ err' = LibError("resid_tests")
                    /\ diagnostics' = diagnostics
               ELSE /\ pc' = "return"
                    /\ err' = err
                    /\ diagnostics' = Diagnostics(fit, used_lags)
    /\ UNCHANGED <<callVars, defaultConfig, prepVars, transVars, sel,
                   used_lags, fit, pack, printed, plots, fcVars, histVars>>

\* lines 163-170
Return ==
    /\ pc = "return"
    /\ pack' = VARResultsPack(fit, used_lags, meta, diagnostics)
    /\ pc' = IF entry = "quick_var_country_report" THEN "report" ELSE "done"
    /\ UNCHANGED <<callVars, defaultConfig, prepVars, transVars, sel,
                   used_lags, fit, diagnostics, err, printed, plots, fcVars,
                   lib, histVars>>

-----------------------------------------------------------------------------
(* forecast_levels *)

\* forecasted values
Deltas == {-1, 1}

\* model_fit.forecast(y0, steps): an exception, or one row per step with a
\* value for each variable
ForecastOutcomes(n) ==
    {Raise} \cup {Ok(m) : m \in [1..n -> [1..Len(ColumnOrder) -> Deltas]]}

\* pd.DataFrame(rows, columns=...): the default index is 0, 1, ...
DataFrame(rows, columns) ==
    [columns |-> columns, index_name |-> <<>>,
     index |-> [j \in 1..Len(rows) |-> j - 1], rows |-> rows]

\* the sum of two rows, by position
VecAdd(a, b) == [k \in 1..Len(a) |-> a[k] + b[k]]

\* line 206 adding to the last observed levels instead of the last level
NextLevelFromSeed(lv, row) == VecAdd(lv[1], row)

\* line 206
NextLevel(lv, row) == VecAdd(lv[Len(lv)], row)

\* line 208 without dropping the seed row
StackLevelsWithSeed(lv) == lv

\* line 208: levels[1:]
StackLevels(lv) == SubSeq(lv, 2, Len(lv))

\* lines 198-200
ForecastRaw ==
    /\ pc = "fc_call"
    /\ LET args == <<pack.model_fit, steps>>
       IN \E o \in Answers("forecast", args, lib, ForecastOutcomes(steps)) :
            /\ lib' = lib \cup {<<"forecast", args, o>>}
            /\ IF o = Raise
               THEN pc' = "raised" /\ err' = LibError("forecast") /\ fcst' = fcst
               ELSE pc' = "fc_branch" /\ err' = err
                    /\ fcst' = DataFrame(o[2], pack.variables)
    /\ UNCHANGED <<callVars, defaultConfig, prepVars, transVars, fitVars,
                   printed, plots, last_levels, steps, levels, i, out,
                   histVars>>

\* lines 202-204
CumulateInit ==
    /\ pc = "fc_branch"
    /\ pack.transformed
    /\ levels' = <<last_levels>>
    /\ i' = 0
    /\ pc' = "fc_loop"
    /\ UNCHANGED <<callVars, defaultConfig, prepVars, transVars, fitVars, err,
                   printed, plots, last_levels, steps, fcst, out, lib,
                   histVars>>

\* lines 205-207: one iteration; i counts the iterations made
CumulateStep ==
    /\ pc = "fc_loop"
    /\ i < steps
    /\ levels' = Append(levels, NextLevel(levels, fcst.rows[i + 1]))
    /\ i' = i + 1
    /\ UNCHANGED <<callVars, pc, defaultConfig, prepVars, transVars, fitVars,
                   err, printed, plots, last_levels, steps, fcst, out, lib,
                   histVars>>

\* lines 208-209; np.vstack raises a ValueError on an empty list, which is
\* what levels[1:] is when the loop made no iteration
CumulateEnd ==
    /\ pc = "fc_loop"
    /\ i >= steps
    /\ IF StackLevels(levels) = <<>>
       THEN pc' = "raised" /\ err' = LibError("vstack") /\ out' = out
       ELSE /\ out' = DataFrame(StackLevels(levels), pack.variables)
            /\ pc' = "fc_name"
            /\ err' = err
    /\ UNCHANGED <<callVars, defaultConfig, prepVars, transVars, fitVars,
                   printed, plots, last_levels, steps, fcst, levels, i, lib,
                   histVars>>

\* lines 210-211
NoCumulate ==
    /\ pc = "fc_branch"
    /\ ~pack.transformed
    /\ out' = fcst
    /\ pc' = "fc_name"
    /\ UNCHANGED <<callVars, defaultConfig, prepVars, transVars, fitVars, err,
                   printed, plots, last_levels, steps, fcst, levels, i, lib,
                   histVars>>

\* lines 213-214
ForecastReturn ==
    /\ pc = "fc_name"
    /\ out' = [out EXCEPT !.index_name = "step"]
    /\ pc' = IF entry = "forecast_levels" THEN "fc_done" ELSE "fc_report"
    /\ UNCHANGED <<callVars, defaultConfig, prepVars, transVars, fitVars, err,
                   printed, plots, last_levels, steps, fcst, levels, i, lib,
                   histVars>>

-----------------------------------------------------------------------------
(* quick_var_country_report, plot_irf *)

\* results.model_fit.irf(horizon): it returns or raises
IrfOutcomes == {Raise, Ok(NaN)}

\* the print calls of lines 221-231
PrintCount(p) ==
    4 + Len(p.transform_meta.adf_before)
      + (IF p.transformed THEN 1 + Len(p.transform_meta.adf_after) ELSE 0) + 1

\* lines 221-231
ReportPrint ==
    /\ pc = "report"
    /\ printed' = printed + PrintCount(pack)
    /\ pc' = "report_irf"
    /\ UNCHANGED <<callVars, defaultConfig, prepVars, transVars, fitVars, err,
                   plots, fcVars, lib, histVars>>

\* line 234 and plot_irf, lines 174-189: one figure per response and impulse
PlotIrf ==
    /\ pc = "report_irf"
    /\ LET args == <<pack.model_fit, Config.irf_horizon>>
       IN \E o \in Answers("irf", args, lib, IrfOutcomes) :
            /\ lib' = lib \cup {<<"irf", args, o>>}
            /\ IF o = Raise
               THEN pc' = "raised" /\ err' = LibError("irf") /\ plots' = plots
               ELSE /\ pc' = "report_levels"
                    /\ err' = err
                    /\ plots' = plots + Len(pack.variables) * Len(pack.variables)
    /\ UNCHANGED <<callVars, defaultConfig, prepVars, transVars, fitVars,
                   printed, fcVars, histVars>>

\* lines 238-245: the last observed levels, and the call of forecast_levels
ReportLevels ==
    /\ pc = "report_levels"
    /\ LET dfl == DropNa(TwoColumns(ensure_datetime_index(CountryRows(df, country))))
       IN IF dfl.rows = <<>>
          THEN /\ pc' = "raised"
               /\ err' = <<"IndexError", "single positional indexer is out-of-bounds">>
               /\ UNCHANGED <<last_levels, steps>>
          ELSE /\ last_levels' = [k \in 1..Len(ColumnOrder) |->
                                     dfl.rows[Len(dfl.rows)][ColumnOrder[k]][1]]
               /\ steps' = Config.fcst_steps
               /\ pc' = "fc_call"
               /\ err' = err
    /\ UNCHANGED <<callVars, defaultConfig, prepVars, transVars, fitVars,
                   printed, plots, fcst, levels, i, out, lib, histVars>>

\* lines 246-264
ReportForecast ==
    /\ pc = "fc_report"
    /\ printed' = printed + 2
    /\ plots' = plots + Len(out.columns)
    /\ pc' = "reported"
    /\ UNCHANGED <<callVars, defaultConfig, prepVars, transVars, fitVars, err,
                   fcVars, lib, histVars>>

-----------------------------------------------------------------------------
(* Initial states *)

\* the locals of an invocation before it runs
FreshLocals ==
    /\ dfc = NoTable
    /\ df_xy = NoTable
    /\ df_xy_t = NoTable
    /\ meta = NoMeta
    /\ sel = <<>>
    /\ used_lags = 0
    /\ fit = NoFit
    /\ diagnostics = NoDiagnostics
    /\ pack = NoPack
    /\ err = NoErr
    /\ printed = 0
    /\ plots = 0

NoForecast ==
    /\ last_levels = <<>>
    /\ steps = 0
    /\ fcst = <<>>
    /\ levels = <<>>
    /\ i = 0
    /\ out = <<>>

NoHistory ==
    /\ lib = {}
    /\ phase = "hist"
    /\ ref = <<>>

\* fit_var_for_country or quick_var_country_report is called on a raw table
InitPrep ==
    /\ entry \in {"fit_var_for_country", "quick_var_country_report"}
    /\ pc = "call"
    /\ df \in Tables
    /\ country \in Countries
    /\ cfgKind = "default"
    /\ cfgArg = VARConfigDefault
    /\ defaultConfig = VARConfigDefault
    /\ FreshLocals
    /\ NoForecast
    /\ NoHistory

NextPrep == CheckColumns \/ EnsureIndex \/ Clean

SpecPrep == InitPrep /\ [][NextPrep]_vars

MaxObs == 3

\* raw single-country tables with numbers in both data columns
SeriesTables ==
    {[cols |-> {year_col, y_col, pi_col}, index |-> RangeIndex, rows |-> rs] :
        rs \in SeqsUpTo({[Year |-> yr, yield_10y |-> Num(y), inflation_yoy |-> Num(p)] :
                            yr \in Years, y \in {1, 2}, p \in {1, 2}}, MaxObs)}

\* fit_var_for_country has reached line 124 on a table of SeriesTables
InitTransform ==
    /\ entry = "fit_var_for_country"
    /\ pc = "transform"
    /\ df \in SeriesTables
    /\ country = "ES"
    /\ cfgKind \in {"default", "explicit"}
    /\ cfgArg \in {[VARConfigDefault EXCEPT !.diff_to_stationary = b] :
                      b \in (IF cfgKind = "default" THEN {TRUE} ELSE BOOLEAN)}
    /\ defaultConfig = VARConfigDefault
    /\ dfc = ensure_datetime_index(CountryRows(df, country))
    /\ df_xy = DropNa(TwoColumns(dfc))
    /\ df_xy_t = NoTable
    /\ meta = NoMeta
    /\ sel = <<>>
    /\ used_lags = 0
    /\ fit = NoFit
    /\ diagnostics = NoDiagnostics
    /\ pack = NoPack
    /\ err = NoErr
    /\ printed = 0
    /\ plots = 0
    /\ NoForecast
    /\ NoHistory

NextTransform == AdfBefore \/ Difference \/ AdfAfter \/ NoDifference

SpecTransform == InitTransform /\ [][NextTransform]_vars

MaxLagsCfg == 2

LowLagsCfg == 1

\* configurations with any maximum lag from -LowLagsCfg to MaxLagsCfg and a
\* criterion, an attribute that is no number or no attribute at all
SelectConfigs ==
    {[VARConfigDefault EXCEPT !.maxlags = m, !.ic = c] :
        m \in (0 - LowLagsCfg)..MaxLagsCfg, c \in {"aic", "bic", "title", "nope"}}

\* fit_var_for_country has reached line 127 on a table that was not
\* differenced
InitSelect ==
    /\ entry = "fit_var_for_country"
    /\ pc = "select"
    /\ df \in {t \in SeriesTables :
                  /\ Len(t.rows) = MaxObs
                  /\ \A j \in 1..MaxObs : /\ t.rows[j][y_col] = Num(1)
                                         /\ t.rows[j][pi_col] = Num(1)}
    /\ country = "ES"
    /\ cfgKind \in {"default", "explicit"}
    /\ cfgArg \in (IF cfgKind = "default" THEN {VARConfigDefault} ELSE SelectConfigs)
    /\ defaultConfig = VARConfigDefault
    /\ dfc = ensure_datetime_index(CountryRows(df, country))
    /\ df_xy = DropNa(TwoColumns(dfc))
    /\ df_xy_t = df_xy
    /\ meta = [NoMeta EXCEPT !.adf_before = <<adf_report(y_col, Num(4)),
                                              adf_report(pi_col, Num(4))>>]
    /\ sel = <<>>
    /\ used_lags = 0
    /\ fit = NoFit
    /\ diagnostics = NoDiagnostics
    /\ pack = NoPack
    /\ err = NoErr
    /\ printed = 0
    /\ plots = 0
    /\ NoForecast
    /\ NoHistory

NextSelect == SelectOrder \/ SelectLags \/ Fit \/ Diagnose \/ Return

SpecSelect == InitSelect /\ [][NextSelect]_vars

MaxSteps == 3

LevelVals == {0, 5}

\* packs as fit_var_for_country returns them, differenced or not
ForecastPacks ==
    {VARResultsPack([k_ar |-> 1, roots |-> <<9, 9>>, nobs |-> 2], 1,
                    [differenced |-> b,
                     adf_before |-> <<adf_report(y_col, Num(IF b THEN 5 ELSE 4)),
                                      adf_report(pi_col, Num(4))>>,
                     adf_after |-> IF b THEN <<adf_report(y_col, Num(4)),
                                               adf_report(pi_col, Num(4))>>
                                   ELSE <<>>],
                    Diagnostics([k_ar |-> 1, roots |-> <<9, 9>>, nobs |-> 2], 1)) :
        b \in BOOLEAN}

\* forecast_levels is called with a pack, last levels and a number of steps
InitForecast ==
    /\ entry = "forecast_levels"
    /\ pc = "fc_call"
    /\ df = NoTable
    /\ country = "ES"
    /\ cfgKind = "default"
    /\ cfgArg = VARConfigDefault
    /\ defaultConfig = VARConfigDefault
    /\ dfc = NoTable
    /\ df_xy = NoTable
    /\ df_xy_t = NoTable
    /\ meta = NoMeta
    /\ sel = <<>>
    /\ used_lags = 0
    /\ fit = NoFit
    /\ diagnostics = NoDiagnostics
    /\ pack \in ForecastPacks
    /\ err = NoErr
    /\ printed = 0
    /\ plots = 0
    /\ last_levels \in [1..Len(ColumnOrder) -> LevelVals]
    /\ steps \in 0..MaxSteps
    /\ fcst = <<>>
    /\ levels = <<>>
    /\ i = 0
    /\ out = <<>>
    /\ NoHistory

NextForecast ==
    \/ ForecastRaw
    \/ CumulateInit
    \/ CumulateStep
    \/ CumulateEnd
    \/ NoCumulate
    \/ ForecastReturn

SpecForecast == InitForecast /\ [][NextForecast]_vars

-----------------------------------------------------------------------------
(* Sequences of invocations *)

\* the rows of the tables of the invocations: out of order, the last one of
\* another country and with a missing value
RunRows ==
    <<[Country |-> "ES", Year |-> 2011, yield_10y |-> Num(2), inflation_yoy |-> Num(1)],
      [Country |-> "ES", Year |-> 2010, yield_10y |-> Num(1), inflation_yoy |-> Num(1)],
      [Country |-> "DE", Year |-> 2010, yield_10y |-> NaN, inflation_yoy |-> Num(1)]>>

RunColSets ==
    {{"Country", year_col, y_col, pi_col}, {year_col, y_col, pi_col},
     {"Country", year_col, y_col}, {"Country", year_col}, {"Country", y_col, pi_col}}

RunTables ==
    {[cols |-> c, index |-> RangeIndex,
      rows |-> [j \in 1..Len(RunRows) |-> [k \in c |-> RunRows[j][k]]]] :
        c \in RunColSets}

RunConfigs ==
    {[VARConfigDefault EXCEPT !.maxlags = 1, !.fcst_steps = 1,
                              !.diff_to_stationary = b] : b \in BOOLEAN}

\* the outcome of an invocation of fit_var_for_country
Outcome ==
    [used_lags |-> used_lags, transformed |-> meta.differenced,
     transform_meta |-> meta, diagnostics |-> diagnostics, err |-> err,
     pc |-> pc]

Terminal == pc \in {"idle", "done", "raised", "reported"}

\* a call: the arguments are bound and the locals are fresh
Invoke(e, t, c, kind, cfg) ==
    /\ entry' = e
    /\ df' = t
    /\ country' = c
    /\ cfgKind' = kind
    /\ cfgArg' = cfg
    /\ pc' = "call"
    /\ dfc' = NoTable
    /\ df_xy' = NoTable
    /\ df_xy_t' = NoTable
    /\ meta' = NoMeta
    /\ sel' = <<>>
    /\ used_lags' = 0
    /\ fit' = NoFit
    /\ diagnostics' = NoDiagnostics
    /\ pack' = NoPack
    /\ err' = NoErr
    /\ printed' = 0
    /\ plots' = 0
    /\ last_levels' = <<>>
    /\ steps' = 0
    /\ fcst' = <<>>
    /\ levels' = <<>>
    /\ i' = 0
    /\ out' = <<>>
    /\ UNCHANGED defaultConfig

\* the table and the configuration as they are when the invocation starts
Snapshot(t, kind, cfg) ==
    [df |-> t, config |-> IF kind = "default" THEN defaultConfig ELSE cfg,
     outcome |-> <<>>]

\* an earlier invocation, of either function (any number of them is made);
\* the report is called with an explicit configuration
CallEarlier ==
    /\ Terminal
    /\ phase = "hist"
    /\ \E e \in {"fit_var_for_country", "quick_var_country_report"},
          t \in RunTables, c \in Countries, kind \in {"default", "explicit"} :
          \E cfg \in (IF kind = "default" THEN {VARConfigDefault} ELSE RunConfigs) :
             /\ e = "quick_var_country_report" => kind = "explicit"
             /\ Invoke(e, t, c, kind, cfg)
             /\ ref' = Snapshot(t, kind, cfg)
    /\ lib' = {}
    /\ UNCHANGED phase

\* the first of two invocations of fit_var_for_country with the same
\* arguments
CallFirst ==
    /\ Terminal
    /\ phase = "hist"
    /\ \E t \in RunTables, c \in Countries, kind \in {"default", "explicit"} :
          \E cfg \in (IF kind = "default" THEN {VARConfigDefault} ELSE RunConfigs) :
             /\ Invoke("fit_var_for_country", t, c, kind, cfg)
             /\ ref' = Snapshot(t, kind, cfg)
    /\ phase' = "first"
    /\ lib' = {}

\* the second: the same table and configuration objects, and a library that
\* answers a call it has seen as it did
CallSecond ==
    /\ pc \in {"done", "raised"}
    /\ phase = "first"
    /\ Invoke("fit_var_for_country", df, country, cfgKind, cfgArg)
    /\ ref' = [ref EXCEPT !.outcome = Outcome]
    /\ phase' = "second"
    /\ UNCHANGED lib

Init ==
    /\ entry = "none"
    /\ pc = "idle"
    /\ df = NoTable
    /\ country = "ES"
    /\ cfgKind = "default"
    /\ cfgArg = VARConfigDefault
    /\ defaultConfig = VARConfigDefault
    /\ FreshLocals
    /\ NoForecast
    /\ NoHistory

Next ==
    \/ CallEarlier
    \/ CallFirst
    \/ CallSecond
    \/ CheckColumns
    \/ EnsureIndex
    \/ Clean
    \/ AdfBefore
    \/ Difference
    \/ AdfAfter
    \/ NoDifference
    \/ SelectOrder
    \/ SelectLags
    \/ Fit
    \/ Diagnose
    \/ Return
    \/ ReportPrint
    \/ PlotIrf
    \/ ReportLevels
    \/ ForecastRaw
    \/ CumulateInit
    \/ CumulateStep
    \/ CumulateEnd
    \/ NoCumulate
    \/ ForecastReturn
    \/ ReportForecast

Spec == Init /\ [][Next]_vars

-----------------------------------------------------------------------------
(* Properties of the table handed to the transformer *)

Chronological(t) ==
    \A j \in 1..(Len(t.rows) - 1) : DateLE(t.rows[j]["Date"], t.rows[j + 1]["Date"])

NoDuplicateIndex(t) ==
    \A j, k \in 1..Len(t.rows) : j # k => t.rows[j]["Date"] # t.rows[k]["Date"]

NoMissing(t) ==
    \A j \in 1..Len(t.rows) : \A c \in t.cols : ~IsNaN(t.rows[j][c])

\* C10: the table handed to the transformer (df_xy at line 124) is
\* chronologically sorted, has no duplicate index values and has no
\* missing values, whatever the input table
C10_TimeSeriesTable ==
    pc = "transform" =>
        /\ Chronological(df_xy)
        /\ NoDuplicateIndex(df_xy)
        /\ NoMissing(df_xy)

-----------------------------------------------------------------------------
(* Properties of difference_if_needed *)

AllBelowAlpha(adf_b) ==
    \A k \in 1..Len(adf_b) : LT(adf_b[k].p_value, Num(Alpha))

SomeAtLeastAlpha(adf_b) ==
    \E k \in 1..Len(adf_b) : GE(adf_b[k].p_value, Num(Alpha))

NamesColumns(recs) ==
    /\ Len(recs) = 2
    /\ recs[1].variable = y_col
    /\ recs[2].variable = pi_col

\* C3: when every p-value is below 0.05, and when auto-differencing is
\* disabled whatever the p-values, difference_if_needed returns its input
\* table as it is, with differenced = false, no 'after' records and the
\* 'before' records of both columns
C3_ReturnsInputUnchanged ==
    (pc = "select" /\ (AllBelowAlpha(meta.adf_before) \/ ~Config.diff_to_stationary)) =>
        /\ df_xy_t = df_xy
        /\ meta.differenced = FALSE
        /\ meta.adf_after = <<>>
        /\ NamesColumns(meta.adf_before)

C3_Witness ==
    /\ pc = "select"
    /\ ~Config.diff_to_stationary
    /\ SomeAtLeastAlpha(meta.adf_before)
    /\ Len(df_xy.rows) >= 2
    /\ df_xy_t = df_xy

\* C4: when auto-differencing is enabled and some p-value is >= 0.05,
\* difference_if_needed returns a table with one row fewer than its input,
\* row j being row j+1 minus row j of the input in both columns, with
\* differenced = true and an 'after' record for each column
C4_DifferencedJointly ==
    (pc = "select" /\ Config.diff_to_stationary /\ SomeAtLeastAlpha(meta.adf_before)) =>
        /\ Len(df_xy_t.rows) = Len(df_xy.rows) - 1
        /\ \A j \in 1..Len(df_xy_t.rows) : \A c \in {y_col, pi_col} :
              df_xy_t.rows[j][c] = Sub(df_xy.rows[j + 1][c], df_xy.rows[j][c])
        /\ meta.differenced = TRUE
        /\ NamesColumns(meta.adf_after)

C4_Witness ==
    /\ pc = "select"
    /\ Config.diff_to_stationary
    /\ GE(meta.adf_before[1].p_value, Num(Alpha))
    /\ LT(meta.adf_before[2].p_value, Num(Alpha))
    /\ meta.differenced
    /\ Len(df_xy_t.rows) = 2
    /\ df_xy_t.rows[2][pi_col] # Num(0)

-----------------------------------------------------------------------------
(* Properties of select_lags and of the diagnostics *)

LagsSelected == pc \notin {"call", "index", "clean", "transform", "decide",
                           "adf_after", "select", "selected"}

\* C1 as claimed: for every configuration and every outcome of the
\* selection, select_lags returns a positive order that is at most the
\* configured maximum
C1_PositiveAtMostMax ==
    LagsSelected => (used_lags >= 1 /\ used_lags <= Config.maxlags)

\* C1 as amended: the order is in 1..maxlags when the configured maximum is
\* at least 1; when it is below 1 the order returned is the configured
\* maximum itself
C1_PositiveWhenMaxPositive ==
    LagsSelected =>
        IF Config.maxlags >= 1
        THEN used_lags >= 1 /\ used_lags <= Config.maxlags
        ELSE used_lags = Config.maxlags

C1_Witness ==
    /\ LagsSelected
    /\ Config.maxlags = 2
    /\ sel = Ok(Num(0))
    /\ used_lags = 1

C7_StableIffAllBelowOne ==
    diagnostics # NoDiagnostics =>
        /\ diagnostics.stable_roots_all_less_than_one
              = ~(\E j \in 1..Len(fit.roots) : fit.roots[j] >= One)
        /\ IF Len(fit.roots) = 0
           THEN IsNaN(diagnostics.roots_modulus_max)
           ELSE /\ \E j \in 1..Len(fit.roots) :
                      diagnostics.roots_modulus_max = Num(fit.roots[j])
                /\ \A j \in 1..Len(fit.roots) :
                      fit.roots[j] <= diagnostics.roots_modulus_max[1]

C7_Witness ==
    /\ pc = "done"
    /\ Len(fit.roots) > 0
    /\ fit.roots[1] = One
    /\ ~pack.diagnostics.stable_roots_all_less_than_one
    /\ pack.diagnostics.roots_modulus_max = Num(One)

\* the part of C10 that holds: the table is sorted and has no missing value
PrepSortedNoMissing ==
    pc = "transform" => (Chronological(df_xy) /\ NoMissing(df_xy))

-----------------------------------------------------------------------------
(* Properties of forecast_levels *)

RECURSIVE SumTo(_, _, _)
\* the sum of column k of the first n rows
SumTo(rows, n, k) == IF n = 0 THEN 0 ELSE SumTo(rows, n - 1, k) + rows[n][k]

\* C5: for a pack fit on differenced data, row j of the table returned is
\* the last levels plus the first j forecasted differences, and the table
\* has as many rows as steps: the last levels are no row of it
C5_CumulativeSum ==
    (pc = "fc_done" /\ pack.transformed) =>
        /\ Len(out.rows) = steps
        /\ \A j \in 1..Len(out.rows) : \A k \in 1..Len(ColumnOrder) :
              out.rows[j][k] = last_levels[k] + SumTo(fcst.rows, j, k)

C5_Witness ==
    /\ pc = "fc_done"
    /\ pack.transformed
    /\ steps = 3
    /\ last_levels = <<5, 0>>
    /\ out.rows[3] = <<8, -1>>

\* C6: for steps >= 1 the table returned is indexed 1..steps, has the
\* pack's variables as its columns, in their order, and when the model was
\* not differenced its rows are the raw forecasts
C6_IndexedFromOne ==
    (pc = "fc_done" /\ steps >= 1) =>
        /\ out.index = [j \in 1..steps |-> j]
        /\ out.columns = pack.variables
        /\ ~pack.transformed => out.rows = fcst.rows

-----------------------------------------------------------------------------
(* Properties of whole invocations *)

\* the needed columns the caller's table lacks
LackedColumns == {c \in {y_col, pi_col} : c \notin df.cols}

\* C8: when the table lacks the yield column, the inflation column or
\* both, the invocation ends with an error that names exactly the lacked
\* columns, raised before any index conversion, stationarity test, lag
\* selection or fit; no pack is made, and quick_var_country_report prints
\* and plots nothing
C8_MissingColumnsRaise ==
    (pc \notin {"idle", "call"} /\ LackedColumns # {}) =>
        /\ pc = "raised"
        /\ err = ValueErrorMissing(LackedColumns)
        /\ dfc.index = RangeIndex
        /\ df_xy = NoTable
        /\ meta = NoMeta
        /\ lib = {}
        /\ sel = <<>>
        /\ fit = NoFit
        /\ pack = NoPack
        /\ printed = 0
        /\ plots = 0

C8_Witness ==
    /\ entry = "quick_var_country_report"
    /\ pc = "raised"
    /\ LackedColumns = {pi_col}
    /\ err = ValueErrorMissing({pi_col})
    /\ printed = 0

\* C9: no invocation modifies its table or its configuration, the shared
\* default configuration included, and after any earlier invocations a
\* second invocation of fit_var_for_country with the table, country and
\* configuration of a first one ends as the first did: same lag order,
\* differencing flag, transform metadata, diagnostics and error
C9_DeterministicIndependent ==
    /\ defaultConfig = VARConfigDefault
    /\ pc # "idle" => (df = ref.df /\ Config = ref.config)
    /\ (phase = "second" /\ pc \in {"done", "raised"}) => Outcome = ref.outcome

C9_Witness ==
    /\ phase = "second"
    /\ pc = "done"
    /\ cfgKind = "default"
    /\ pack.transformed
    /\ pack.used_lags = 2
    /\ ref.outcome.used_lags = 2
    /\ ref.outcome.pc = "done"
====
